---- MODULE Spec2Model ----
(***************************************************************************)
(* Model of src/Preprocessing.py: the HICP workbook preprocessing          *)
(* pipeline (cleaning_dataframe, load_summary, map_sheet_to_category, the  *)
(* three dataset assemblers and load_all_data).                            *)
(*                                                                         *)
(* A cell of a DataFrame is a record [t, v]: t is the kind of the value    *)
(* ("str", "num", "date" or "nan" for the missing-value marker NaN/NaT)    *)
(* and v its text.  A DataFrame is a record [columns, index, data]: the    *)
(* column labels, the row labels and the rows (each a sequence of cells).  *)
(* Library semantics are those of pandas 2.x, the series current when the  *)
(* source was written.                                                     *)
(***************************************************************************)
EXTENDS Integers, Sequences, FiniteSets, TLC

VARIABLES
    raw, res, res2, cpc,            \* the cleaner run on one sheet
    sheet_name, idx, category, kpc, \* map_sheet_to_category run on one name
    lpc,      \* load_all_data: the call it is in, or how it ended
    kind,     \* the assembler running: "main", "details" or "weights"
    apc,      \* the assembler's position
    files,    \* the Summary sheet read from each workbook so far
    summary,  \* the assembler's cleaned summary
    pos,      \* the assembler's loop position in the summary
    frames,   \* the assembler's list of labelled tables
    out,      \* what the assembler returned or raised
    reads,    \* the data sheets read so far, as <<workbook, sheet>>
    got,      \* load_all_data's local tables
    ret       \* what load_all_data returned

cleanVars == <<raw, res, res2, cpc>>

classVars == <<sheet_name, idx, category, kpc>>

loadVars == <<lpc, kind, apc, files, summary, pos, frames, out, reads, got, ret>>

vars == <<raw, res, res2, cpc, sheet_name, idx, category, kpc,
          lpc, kind, apc, files, summary, pos, frames, out, reads, got, ret>>

----------------------------------------------------------------------------
(* Bounds of the enumerated inputs.                                        *)

MaxCols == 4

MaxRows == 2

MaxNameLen == 4

MaxSummaryRows == 2

MaxAllRows == 2

----------------------------------------------------------------------------
(* Cells.                                                                  *)

NaN == [t |-> "nan", v |-> ""]

Str(s) == [t |-> "str", v |-> s]

Num(s) == [t |-> "num", v |-> s]

Date(s) == [t |-> "date", v |-> s]

IsNa(c) == c.t = "nan"

RECURSIVE SelectIdx(_, _)
\* The increasing sequence of the positions p of 1..n with keep[p].
SelectIdx(keep, n) ==
    IF n = 0 THEN <<>>
    ELSE IF keep[n] THEN Append(SelectIdx(keep, n - 1), n)
         ELSE SelectIdx(keep, n - 1)

RECURSIVE Flatten(_)
Flatten(ss) == IF ss = <<>> THEN <<>> ELSE Head(ss) \o Flatten(Tail(ss))

Range(s) == {s[i] : i \in 1..Len(s)}

----------------------------------------------------------------------------
(* cleaning_dataframe, step by step.                                       *)

\* [0] + [i for i in range(ncols) if i % 2 != 0]   (0-based column indices)
ColumnSelection(ncols) ==
    LET odd == SelectIdx([p \in 1..ncols |-> (p - 1) % 2 /= 0], ncols)
    IN  <<0>> \o [k \in 1..Len(odd) |-> odd[k] - 1]

\* df.iloc[:, idxs]: positional column selection; column 0 of a frame
\* without columns is out of bounds.
Iloc(df, idxs) ==
    [columns |-> [k \in 1..Len(idxs) |-> df.columns[idxs[k] + 1]],
     index   |-> df.index,
     data    |-> [r \in 1..Len(df.data) |->
                     [k \in 1..Len(idxs) |-> df.data[r][idxs[k] + 1]]]]

\* df.replace(token, np.nan): a cell whose whole value is the string token
\* becomes NaN; the column labels are not values and stay.
Replace(df, token) ==
    [df EXCEPT !.data =
        [r \in 1..Len(df.data) |->
            [k \in 1..Len(df.data[r]) |->
                IF df.data[r][k] = Str(token) THEN NaN ELSE df.data[r][k]]]]

\* df.reset_index(drop=True)
ResetIndex(df) == [df EXCEPT !.index = [r \in 1..Len(df.data) |-> r - 1]]

\* A rename that gives the first column the new label whatever it is called.
RenameFirst(df, old, new) ==
    [df EXCEPT !.columns =
        [k \in 1..Len(df.columns) |-> IF k = 1 THEN new ELSE df.columns[k]]]

\* df.rename(columns={old: new}): only a label equal to old is renamed.
Rename(df, old, new) ==
    [df EXCEPT !.columns =
        [k \in 1..Len(df.columns) |->
            IF df.columns[k] = old THEN new ELSE df.columns[k]]]

\* The position of the first column labelled name (0 if there is none).
ColPos(df, name) ==
    IF \E k \in 1..Len(df.columns) : df.columns[k] = name
    THEN CHOOSE k \in 1..Len(df.columns) :
            /\ df.columns[k] = name
            /\ \A j \in 1..(k - 1) : df.columns[j] /= name
    ELSE 0

\* Melt with the rows of the long table taken row by row instead of column
\* by column.
MeltRowMajor(df, id, var_name, value_name) ==
    LET ip   == IF \E k \in 1..Len(df.columns) : df.columns[k] = id
                THEN CHOOSE k \in 1..Len(df.columns) : df.columns[k] = id ELSE 0
        vpos == SelectIdx([p \in 1..Len(df.columns) |-> p /= ip], Len(df.columns))
        rows == Flatten([r \in 1..Len(df.data) |->
                    [j \in 1..Len(vpos) |->
                        <<df.data[r][ip], Str(df.columns[vpos[j]]), df.data[r][vpos[j]]>>]])
    IN  [columns |-> <<id, var_name, value_name>>,
         index   |-> [n \in 1..Len(rows) |-> n - 1],
         data    |-> rows]

\* df.melt(id_vars=id, var_name=..., value_name=...): one row per (value
\* column, row), value columns in column order, rows in row order within a
\* column; the variable field is the column's label; a fresh RangeIndex.
Melt(df, id, var_name, value_name) ==
    LET ip   == ColPos(df, id)
        n    == Len(df.data)
        vpos == SelectIdx([p \in 1..Len(df.columns) |-> p /= ip], Len(df.columns))
        rows == Flatten([j \in 1..Len(vpos) |->
                    [r \in 1..n |->
                        <<df.data[r][ip], Str(df.columns[vpos[j]]), df.data[r][vpos[j]]>>]])
    IN  [columns |-> <<id, var_name, value_name>>,
         index   |-> [i \in 1..Len(rows) |-> i - 1],
         data    |-> rows]

\* str(value), as Series.astype(str) applies it in pandas 2.x: the missing
\* value becomes the text "nan".
AsStr(c) == IF IsNa(c) THEN Str("nan") ELSE Str(c.v)

\* The period labels dateutil reads as a date, with the date each denotes.
DateTable ==
    [s \in {"2020-01", "2020-02"} |->
        IF s = "2020-01" THEN "2020-01-01" ELSE "2020-02-01"]

\* The texts pd.to_datetime reads as the missing date NaT.
NatStrings == {"NaT", "nat", "NAT", "nan", "NaN", "NAN", ""}

\* pd.to_datetime with errors="coerce": nothing raises.
DateNeverRaises(c) == FALSE

\* pd.to_datetime on one value (errors="raise"): does it raise?
DateRaises(c) == c.t = "str" /\ c.v \notin DOMAIN DateTable /\ c.v \notin NatStrings

\* pd.to_datetime on one value that does not raise.
ToDatetime(c) ==
    CASE c.t = "date" -> c
      [] c.t = "nan"  -> NaN
      [] c.t = "num"  -> Date("1970-01-01")
      [] OTHER        -> IF c.v \in DOMAIN DateTable THEN Date(DateTable[c.v]) ELSE NaN

\* The texts pd.to_numeric reads as a number, with the float each denotes.
NumberTable == [s \in {"7"} |-> "7.0"]

\* pd.to_numeric(..., errors="coerce") on one value: never raises.
ToNumeric(c) ==
    CASE c.t = "num"  -> c
      [] c.t = "nan"  -> NaN
      [] c.t = "date" -> Num(c.v)
      [] OTHER        -> IF c.v \in DOMAIN NumberTable THEN Num(NumberTable[c.v]) ELSE NaN

\* df["Country"] = df["Country"].astype(str)
CountryAsStr(df) ==
    [df EXCEPT !.data =
        [r \in 1..Len(df.data) |-> [df.data[r] EXCEPT ![1] = AsStr(df.data[r][1])]]]

\* df["Date"] = pd.to_datetime(df["Date"]), when no value raises.
DateToDatetime(df) ==
    [df EXCEPT !.data =
        [r \in 1..Len(df.data) |-> [df.data[r] EXCEPT ![2] = ToDatetime(df.data[r][2])]]]

\* df["HICP"] = pd.to_numeric(df["HICP"], errors="coerce")
HicpToNumeric(df) ==
    [df EXCEPT !.data =
        [r \in 1..Len(df.data) |-> [df.data[r] EXCEPT ![3] = ToNumeric(df.data[r][3])]]]

\* df.dropna(): the rows without a missing value, with their index labels.
DropNa(df) ==
    LET keep == SelectIdx([r \in 1..Len(df.data) |->
                              \A k \in 1..Len(df.data[r]) : ~IsNa(df.data[r][k])],
                          Len(df.data))
    IN  [columns |-> df.columns,
         index   |-> [i \in 1..Len(keep) |-> df.index[keep[i]]],
         data    |-> [i \in 1..Len(keep) |-> df.data[keep[i]]]]

NoFrame == [columns |-> <<>>, index |-> <<>>, data |-> <<>>]

Raised(e) == [ok |-> FALSE, err |-> e, df |-> NoFrame]

Returned(df) == [ok |-> TRUE, err |-> "", df |-> df]

NotRun == [ok |-> FALSE, err |-> "not run", df |-> NoFrame]

\* The label renamed to Country before the reshape.
TimeLabel == "TIME"

\* cleaning_dataframe(df): the cleaned long table, or the exception raised.
cleaning_dataframe(df) ==
    IF Len(df.columns) = 0 THEN Raised("IndexError")
    ELSE
      LET wide == Rename(ResetIndex(Replace(Replace(
                      Iloc(df, ColumnSelection(Len(df.columns))), ":"), "d")),
                      TimeLabel, "Country")
      IN  IF ColPos(wide, "Country") = 0 THEN Raised("KeyError")
          ELSE
            LET long  == Melt(wide, "Country", "Date", "HICP")
                typed == CountryAsStr(long)
            IN  IF \E r \in 1..Len(typed.data) : DateRaises(typed.data[r][2])
                THEN Raised("DateParseError")
                ELSE Returned(DropNa(HicpToNumeric(DateToDatetime(typed))))

----------------------------------------------------------------------------
(* load_summary.                                                           *)

\* The keys of a columns_map, in order; a columns_map is a sequence of
\* <<raw column, new name>> pairs.
Keys(columns_map) == [k \in 1..Len(columns_map) |-> columns_map[k][1]]

\* The sentinel of the header/info rows of a Summary sheet.
ContentsMark == Str("Contents")

\* df.loc[mask, cols]: the rows accepted by mask, restricted to cols.
Loc(df, mask, cols) ==
    LET keep == SelectIdx(mask, Len(df.data))
    IN  [columns |-> cols,
         index   |-> [n \in 1..Len(keep) |-> df.index[keep[n]]],
         data    |-> [n \in 1..Len(keep) |->
                        [k \in 1..Len(cols) |-> df.data[keep[n]][ColPos(df, cols[k])]]]]

RECURSIVE RenameAll(_, _, _)
\* df.rename(columns=columns_map), one pair after the other.
RenameAll(df, columns_map, n) ==
    IF n = 0 THEN df
    ELSE Rename(RenameAll(df, columns_map, n - 1), columns_map[n][1], columns_map[n][2])

\* load_summary without the dropna step.
load_summary_partial(df, columns_map) ==
    Returned(RenameAll(ResetIndex(
        Loc(df,
            [r \in 1..Len(df.data) |->
                df.data[r][ColPos(df, Keys(columns_map)[1])] /= ContentsMark],
            Keys(columns_map))),
        columns_map, Len(columns_map)))

\* load_summary on the Summary sheet df as read from the workbook.
load_summary(df, columns_map) ==
    LET cols_to_keep == Keys(columns_map)
    IN  IF \E k \in 1..Len(cols_to_keep) : ColPos(df, cols_to_keep[k]) = 0
        THEN Raised("KeyError")
        ELSE Returned(RenameAll(ResetIndex(DropNa(
                Loc(df,
                    [r \in 1..Len(df.data) |->
                        df.data[r][ColPos(df, cols_to_keep[1])] /= ContentsMark],
                    cols_to_keep))),
                columns_map, Len(columns_map)))

----------------------------------------------------------------------------
(* map_sheet_to_category.  A sheet name is a sequence of characters.       *)

PyRange(start, stop) == start..(stop - 1)

\* The Food range ending one index early.
FoodRangeShort == PyRange(1, 75)

SHEETS_INDEX_FOOD == PyRange(1, 76)

SHEETS_INDEX_HOUSING_ENERGY == PyRange(76, 109)

SHEETS_INDEX_TRANSPORT == PyRange(109, 151)

Categories == {"Food", "Housing & Energy", "Transport", "Other"}

Whitespace == {" "}

DigitValue ==
    [c \in {"0", "1", "2", "3", "4", "5", "6", "7", "8", "9"} |->
        CASE c = "0" -> 0 [] c = "1" -> 1 [] c = "2" -> 2 [] c = "3" -> 3
          [] c = "4" -> 4 [] c = "5" -> 5 [] c = "6" -> 6 [] c = "7" -> 7
          [] c = "8" -> 8 [] OTHER -> 9]

RECURSIVE LastToken(_)
\* str.split()[-1]: the last maximal run of non-whitespace characters; the
\* empty sequence when there is none (split() returns [] and [-1] raises).
LastToken(s) ==
    IF s = <<>> THEN <<>>
    ELSE IF s[Len(s)] \in Whitespace THEN LastToken(SubSeq(s, 1, Len(s) - 1))
    ELSE LET start == CHOOSE k \in 1..Len(s) :
                        /\ \A j \in k..Len(s) : s[j] \notin Whitespace
                        /\ (k = 1 \/ s[k - 1] \in Whitespace)
         IN  SubSeq(s, start, Len(s))

RECURSIVE DigitsValue(_)
DigitsValue(ds) ==
    IF ds = <<>> THEN 0
    ELSE 10 * DigitsValue(SubSeq(ds, 1, Len(ds) - 1)) + DigitValue[ds[Len(ds)]]

NoIndex == [ok |-> FALSE, v |-> 0]

\* int(token): an optional sign followed by one or more decimal digits;
\* anything else raises ValueError.
PyInt(tok) ==
    LET signed == tok /= <<>> /\ tok[1] \in {"-", "+"}
        ds     == IF signed THEN Tail(tok) ELSE tok
    IN  IF ds /= <<>> /\ \A k \in 1..Len(ds) : ds[k] \in DOMAIN DigitValue
        THEN [ok |-> TRUE,
              v  |-> IF signed /\ tok[1] = "-" THEN 0 - DigitsValue(ds)
                     ELSE DigitsValue(ds)]
        ELSE NoIndex

\* idx = int(sheet_name.split()[-1]), with ok = FALSE when either step
\* raises (the except clause then applies).
TrailingIndex(s) == IF LastToken(s) = <<>> THEN NoIndex ELSE PyInt(LastToken(s))

\* The classification by range, first match first.
CategoryOfIndex(i) ==
    IF i \in SHEETS_INDEX_FOOD THEN "Food"
    ELSE IF i \in SHEETS_INDEX_HOUSING_ENERGY THEN "Housing & Energy"
    ELSE IF i \in SHEETS_INDEX_TRANSPORT THEN "Transport"
    ELSE "Other"

map_sheet_to_category(s) ==
    IF ~TrailingIndex(s).ok THEN "Other" ELSE CategoryOfIndex(TrailingIndex(s).v)

\* The characters the enumerated sheet names are made of.
NameChars == {" ", "S", "-", "0", "1", "5", "6", "7", "8", "9"}

RECURSIVE Names(_)
\* The sheet names of exactly n characters.
Names(n) ==
    IF n = 0 THEN {<<>>} ELSE {Append(s, c) : s \in Names(n - 1), c \in NameChars}

----------------------------------------------------------------------------
(* The raw sheets the cleaner is run on.                                   *)

FirstHeaders == {"TIME", "GEO"}

\* Period labels of the real-data columns: column 1 and column 3.
PeriodLabels(i) ==
    IF i = 1 THEN {"2020-01", "NaT", "Total"} ELSE {"2020-02", "Total"}

ArtifactHeader(i) == "Unnamed: " \o ToString(i)

CountryCells == {Str("FR"), Str("d"), NaN}

ValueCells(i) ==
    IF i = 1 THEN {Num("100.0"), Str(":"), Str("x"), NaN}
    ELSE {Str("7"), Str("d")}

ArtifactCells == {Num("55.5")}

\* The labels a column at 0-based index i can carry.
LabelsAt(i) ==
    IF i = 0 THEN FirstHeaders
    ELSE IF i % 2 = 1 THEN PeriodLabels(i) ELSE {ArtifactHeader(i)}

\* The values a cell of the column at 0-based index i can hold.
CellsAt(i) ==
    IF i = 0 THEN CountryCells
    ELSE IF i % 2 = 1 THEN ValueCells(i) ELSE ArtifactCells

RECURSIVE HeaderRows(_)
\* The header rows of n columns.
HeaderRows(n) ==
    IF n = 0 THEN {<<>>}
    ELSE {Append(h, l) : h \in HeaderRows(n - 1), l \in LabelsAt(n - 1)}

RECURSIVE DataRows(_)
\* The data rows of n columns.
DataRows(n) ==
    IF n = 0 THEN {<<>>}
    ELSE {Append(d, c) : d \in DataRows(n - 1), c \in CellsAt(n - 1)}

RECURSIVE Tables(_, _)
\* The sequences of m data rows of n columns.
Tables(n, m) ==
    IF m = 0 THEN {<<>>}
    ELSE {Append(t, d) : t \in Tables(n, m - 1), d \in DataRows(n)}

\* The sheet with header row h and data rows d, as the reader returns it.
Sheet(h, d) == [columns |-> h, index |-> [r \in 1..Len(d) |-> r - 1], data |-> d]

----------------------------------------------------------------------------
(* The workbooks.  Every workbook holds the same data sheets; its Summary  *)
(* sheet is whatever the reader finds when the assembler opens it.         *)

\* The sheet names, as texts and as the characters they are made of.
Chars ==
    [n \in {"S 1", "S 76", "S 109", "S 151", "S 9"} |->
        CASE n = "S 1"   -> <<"S", " ", "1">>
          [] n = "S 76"  -> <<"S", " ", "7", "6">>
          [] n = "S 109" -> <<"S", " ", "1", "0", "9">>
          [] n = "S 151" -> <<"S", " ", "1", "5", "1">>
          [] OTHER       -> <<"S", " ", "9">>]

\* The data sheets of a workbook ("S 9" is listed by no workbook).
DataSheets ==
    [n \in {"S 1", "S 76", "S 109", "S 151"} |->
        CASE n = "S 1" ->
                Sheet(<<"TIME", "2020-01", "Unnamed: 2", "2020-02", "Unnamed: 4">>,
                      << <<Str("FR"), Num("100.0"), Str("x"), Str(":"), Str("y")>>,
                         <<Str("DE"), Str("d"), Str("x"), Num("99.5"), Str("y")>> >>)
          [] n = "S 76" ->
                Sheet(<<"TIME", "2020-01">>, << <<Str("FR"), Num("101.0")>> >>)
          [] n = "S 109" ->
                Sheet(<<"TIME", "2020-01">>, << <<Str("FR"), Str(":")>> >>)
          [] OTHER ->
                Sheet(<<"TIME", "Total">>, << <<Str("FR"), Num("100.0")>> >>)]

\* pd.read_excel(file, sheet_name=name, header=...): the sheet, or the
\* error raised for a sheet the workbook does not have.
read_excel(name) ==
    IF name.t = "str" /\ name.v \in DOMAIN DataSheets
    THEN Returned(DataSheets[name.v])
    ELSE Raised("ValueError")

SummaryColumns ==
    <<"Unnamed: 0", "Unnamed: 1", "Unnamed: 2", "Unnamed: 3", "Unnamed: 4">>

SummaryRow(name, third, fourth) == <<NaN, name, NaN, third, fourth>>

\* The rows a Summary sheet is made of when one assembler is run alone.
SummaryRows ==
    { SummaryRow(Str("Contents"), NaN, NaN),
      SummaryRow(Str("Contents"), Str("Base"), Str("Title")),
      SummaryRow(Str("S 1"), Str("2015"), Str("Bread")),
      SummaryRow(Str("S 76"), Str("2015"), Str("Rent")),
      SummaryRow(Str("S 109"), Str("2015"), Str("Fuel")),
      SummaryRow(Str("S 151"), Str("2015"), Str("Misc")),
      SummaryRow(Str("S 9"), Str("2015"), Str("Gone")),
      SummaryRow(Str("S 1"), NaN, Str("Bread")),
      SummaryRow(Str("S 76"), Str("Rent"), NaN),
      SummaryRow(NaN, Str("2015"), Str("Orphan")) }

\* The rows a Summary sheet is made of under load_all_data.
SummaryRowsAll ==
    { SummaryRow(Str("Contents"), NaN, NaN),
      SummaryRow(Str("S 1"), Str("2015"), Str("Bread")),
      SummaryRow(Str("S 109"), Str("2015"), Str("Fuel")),
      SummaryRow(Str("S 151"), Str("2015"), Str("Misc")),
      SummaryRow(Str("S 9"), Str("2015"), Str("Gone")) }

RECURSIVE RowSeqs(_, _)
\* The sequences of n rows of the set rows.
RowSeqs(rows, n) ==
    IF n = 0 THEN {<<>>}
    ELSE {Append(t, d) : t \in RowSeqs(rows, n - 1), d \in rows}

Paths == {"main", "details", "weights"}

\* The columns_map each assembler passes to load_summary.
ColumnsMap(k) ==
    IF k = "weights"
    THEN << <<"Unnamed: 1", "sheet_name">>, <<"Unnamed: 3", "description">> >>
    ELSE << <<"Unnamed: 1", "sheet_name">>, <<"Unnamed: 3", "base">>,
            <<"Unnamed: 4", "description">> >>

----------------------------------------------------------------------------
(* The assemblers.                                                         *)

\* df[name] = value: a new last column holding value in every row.
AddColumn(df, name, value) ==
    [columns |-> Append(df.columns, name),
     index   |-> df.index,
     data    |-> [r \in 1..Len(df.data) |-> Append(df.data[r], value)]]

\* A loop body that swallows a sheet's failure and contributes an empty table.
ProcessSheetSkip(k, name, label) ==
    IF read_excel(name).ok /\ cleaning_dataframe(read_excel(name).df).ok
    THEN Returned(AddColumn(cleaning_dataframe(read_excel(name).df).df, "label", label))
    ELSE Returned([columns |-> <<"Country", "Date", "HICP", "label">>,
                   index |-> <<>>, data |-> <<>>])

\* One pass of an assembler's loop body for the summary entry (name, label):
\* read the sheet, clean it, attach the label and, in the detailed dataset,
\* the category.  Nothing in the loop catches an exception.
ProcessSheet(k, name, label) ==
    LET sheet_df == read_excel(name)
    IN  IF ~sheet_df.ok THEN sheet_df
        ELSE LET clean_df == cleaning_dataframe(sheet_df.df)
             IN  IF ~clean_df.ok THEN clean_df
                 ELSE LET labelled == AddColumn(clean_df.df, "label", label)
                      IN  Returned(
                            IF k = "details"
                            THEN AddColumn(labelled, "Category",
                                           Str(map_sheet_to_category(Chars[name.v])))
                            ELSE labelled)

\* A concatenation that puts the last table first.
ConcatReversed(fs) ==
    IF fs = <<>> THEN Raised("ValueError")
    ELSE LET rows == Flatten([n \in 1..Len(fs) |-> fs[Len(fs) + 1 - n].data])
         IN  Returned([columns |-> fs[1].columns,
                       index   |-> [n \in 1..Len(rows) |-> n - 1],
                       data    |-> rows])

\* A concatenation that answers an empty list with an empty table.
ConcatTolerant(fs) ==
    IF fs = <<>>
    THEN Returned([columns |-> <<"Country", "Date", "HICP", "label">>,
                   index |-> <<>>, data |-> <<>>])
    ELSE LET rows == Flatten([n \in 1..Len(fs) |-> fs[n].data])
         IN  Returned([columns |-> fs[1].columns,
                       index   |-> [n \in 1..Len(rows) |-> n - 1],
                       data    |-> rows])

\* pd.concat(frames, axis=0, ignore_index=True): the rows of the tables one
\* after the other under a fresh RangeIndex; an empty list is an error.
Concat(fs) ==
    IF fs = <<>> THEN Raised("ValueError")
    ELSE LET rows == Flatten([n \in 1..Len(fs) |-> fs[n].data])
         IN  Returned([columns |-> fs[1].columns,
                       index   |-> [n \in 1..Len(rows) |-> n - 1],
                       data    |-> rows])

\* df[df[col] == value].copy()
FilterEq(df, col, value) ==
    Loc(df, [r \in 1..Len(df.data) |-> df.data[r][ColPos(df, col)] = value],
        df.columns)

NoTables ==
    [df_all |-> NoFrame, df_all_items |-> NoFrame, df_food |-> NoFrame,
     df_housing_energy |-> NoFrame, df_transport |-> NoFrame,
     df_weights |-> NoFrame]

NoReturn == [returned |-> FALSE, value |-> NoTables]

NoOut == [ok |-> FALSE, err |-> "not run", df |-> NoFrame, views |-> <<>>]

LoadIdle ==
    /\ lpc = "idle" /\ kind = "none" /\ apc = "idle"
    /\ files = [p \in Paths |-> NoFrame]
    /\ summary = NoFrame /\ pos = 0 /\ frames = <<>> /\ out = NoOut
    /\ reads = <<>> /\ got = NoTables /\ ret = NoReturn

\* The Summary sheets the reader can find.
SummarySheets ==
    IF lpc = "alone"
    THEN UNION {{Sheet(SummaryColumns, d) : d \in RowSeqs(SummaryRows, n)} :
                  n \in 0..MaxSummaryRows}
    ELSE UNION {{Sheet(SummaryColumns, d) : d \in RowSeqs(SummaryRowsAll, n)} :
                  n \in 0..MaxAllRows}

\* summary_x = load_summary(file_path=file_x, columns_map={...})
LoadSummary ==
    /\ apc = "summary"
    /\ \E df \in SummarySheets :
          /\ files' = [files EXCEPT ![kind] = df]
          /\ LET s == load_summary(df, ColumnsMap(kind))
             IN  IF s.ok
                 THEN /\ summary' = s.df
                      /\ pos' = 1
                      /\ apc' = "loop"
                      /\ out' = out
                 ELSE /\ out' = [NoOut EXCEPT !.err = s.err]
                      /\ apc' = "raised"
                      /\ UNCHANGED <<summary, pos>>
    /\ frames' = <<>>
    /\ UNCHANGED <<lpc, kind, reads, got, ret>>
    /\ UNCHANGED cleanVars
    /\ UNCHANGED classVars

\* One iteration of: for sheet_name, label in zip(sheet_names, descriptions)
LoopBody ==
    /\ apc = "loop"
    /\ pos <= Len(summary.data)
    /\ LET name  == summary.data[pos][ColPos(summary, "sheet_name")]
           label == summary.data[pos][ColPos(summary, "description")]
           r     == ProcessSheet(kind, name, label)
       IN  /\ reads' = Append(reads, <<kind, name>>)
           /\ IF r.ok
              THEN /\ frames' = Append(frames, r.df)
                   /\ pos' = pos + 1
                   /\ UNCHANGED <<apc, out>>
              ELSE /\ out' = [NoOut EXCEPT !.err = r.err]
                   /\ apc' = "raised"
                   /\ UNCHANGED <<frames, pos>>
    /\ UNCHANGED <<lpc, kind, files, summary, got, ret>>
    /\ UNCHANGED cleanVars
    /\ UNCHANGED classVars

\* The views of the detailed dataset by main category.
Views(k, df) ==
    IF k = "details"
    THEN <<FilterEq(df, "Category", Str("Food")),
           FilterEq(df, "Category", Str("Housing & Energy")),
           FilterEq(df, "Category", Str("Transport"))>>
    ELSE <<>>

\* df_all = pd.concat(all_frames, axis=0, ignore_index=True); return
Finish ==
    /\ apc = "loop"
    /\ pos > Len(summary.data)
    /\ LET c == Concat(frames)
       IN  IF c.ok
           THEN /\ out' = [ok |-> TRUE, err |-> "", df |-> c.df,
                           views |-> Views(kind, c.df)]
                /\ apc' = "returned"
           ELSE /\ out' = [NoOut EXCEPT !.err = c.err]
                /\ apc' = "raised"
    /\ UNCHANGED <<lpc, kind, files, summary, pos, frames, reads, got, ret>>
    /\ UNCHANGED cleanVars
    /\ UNCHANGED classVars

InitAssemble ==
    /\ raw = NoFrame /\ res = NotRun /\ res2 = NotRun /\ cpc = "idle"
    /\ sheet_name = <<>> /\ idx = NoIndex /\ category = "" /\ kpc = "idle"
    /\ lpc = "alone"
    /\ kind \in Paths
    /\ apc = "summary"
    /\ files = [p \in Paths |-> NoFrame]
    /\ summary = NoFrame /\ pos = 0 /\ frames = <<>> /\ out = NoOut
    /\ reads = <<>> /\ got = NoTables /\ ret = NoReturn

NextAssemble == LoadSummary \/ LoopBody \/ Finish

SpecAssemble == InitAssemble /\ [][NextAssemble]_vars

----------------------------------------------------------------------------
(* load_all_data: the three assemblers one after the other.                *)

\* The tables load_all_data holds once the assembler k has returned o.
Assign(g, k, o) ==
    CASE k = "main"    -> [g EXCEPT !.df_all = o.df]
      [] k = "details" -> [g EXCEPT !.df_all_items = o.df,
                                    !.df_food = o.views[1],
                                    !.df_housing_energy = o.views[2],
                                    !.df_transport = o.views[3]]
      [] OTHER         -> [g EXCEPT !.df_weights = o.df]

\* The call that follows the call of assembler k.
Following(k) == IF k = "main" THEN "details" ELSE "weights"

InitLoadAll ==
    /\ raw = NoFrame /\ res = NotRun /\ res2 = NotRun /\ cpc = "idle"
    /\ sheet_name = <<>> /\ idx = NoIndex /\ category = "" /\ kpc = "idle"
    /\ lpc = "main"
    /\ kind = "main"
    /\ apc = "summary"
    /\ files = [p \in Paths |-> NoFrame]
    /\ summary = NoFrame /\ pos = 0 /\ frames = <<>> /\ out = NoOut
    /\ reads = <<>> /\ got = NoTables /\ ret = NoReturn

\* df_all = load_main_dataset(...) or df_all_items, ... =
\* load_detailed_dataset(...) has returned: the next assembler is called.
NextWorkbook ==
    /\ lpc \in {"main", "details"}
    /\ apc = "returned"
    /\ got' = Assign(got, kind, out)
    /\ lpc' = Following(lpc)
    /\ kind' = Following(kind)
    /\ apc' = "summary"
    /\ summary' = NoFrame /\ pos' = 0 /\ frames' = <<>> /\ out' = NoOut
    /\ UNCHANGED <<files, reads, ret>>
    /\ UNCHANGED cleanVars
    /\ UNCHANGED classVars

\* df_weights = load_weights_dataset(...) has returned: return the dict.
ReturnAll ==
    /\ lpc = "weights"
    /\ apc = "returned"
    /\ got' = Assign(got, kind, out)
    /\ ret' = [returned |-> TRUE, value |-> Assign(got, kind, out)]
    /\ lpc' = "done"
    /\ UNCHANGED <<kind, apc, files, summary, pos, frames, out, reads>>
    /\ UNCHANGED cleanVars
    /\ UNCHANGED classVars

\* An assembler raised: load_all_data has no handler, the exception leaves it.
Propagate ==
    /\ lpc \in Paths
    /\ apc = "raised"
    /\ lpc' = "failed"
    /\ UNCHANGED <<kind, apc, files, summary, pos, frames, out, reads, got, ret>>
    /\ UNCHANGED cleanVars
    /\ UNCHANGED classVars

NextLoadAll ==
    LoadSummary \/ LoopBody \/ Finish \/ NextWorkbook \/ ReturnAll \/ Propagate

SpecLoadAll == InitLoadAll /\ [][NextLoadAll]_vars

----------------------------------------------------------------------------
(* The cleaner run on one sheet, then run again on what it returned.       *)

InitClean ==
    /\ sheet_name = <<>> /\ idx = NoIndex /\ category = "" /\ kpc = "idle"
    /\ LoadIdle
    /\ \E n \in 2..MaxCols, m \in 0..MaxRows :
          \E h \in HeaderRows(n), d \in Tables(n, m) : raw = Sheet(h, d)
    /\ res = NotRun
    /\ res2 = NotRun
    /\ cpc = "start"

\* clean_df = cleaning_dataframe(sheet_df)
CleanSheet ==
    /\ cpc = "start"
    /\ res' = cleaning_dataframe(raw)
    /\ cpc' = "cleaned"
    /\ UNCHANGED <<raw, res2>>
    /\ UNCHANGED classVars
    /\ UNCHANGED loadVars

\* cleaning_dataframe applied to the table it returned.
CleanAgain ==
    /\ cpc = "cleaned"
    /\ res.ok
    /\ res2' = cleaning_dataframe(res.df)
    /\ cpc' = "recleaned"
    /\ UNCHANGED <<raw, res>>
    /\ UNCHANGED classVars
    /\ UNCHANGED loadVars

NextClean == CleanSheet \/ CleanAgain

SpecClean == InitClean /\ [][NextClean]_vars

----------------------------------------------------------------------------
(* map_sheet_to_category run on one sheet name.                            *)

InitClassify ==
    /\ raw = NoFrame /\ res = NotRun /\ res2 = NotRun /\ cpc = "idle"
    /\ \E n \in 0..MaxNameLen : sheet_name \in Names(n)
    /\ idx = NoIndex
    /\ category = ""
    /\ kpc = "start"
    /\ LoadIdle

\* category = map_sheet_to_category(sheet_name); idx keeps the function's
\* local variable of the same name.
Classify ==
    /\ kpc = "start"
    /\ idx' = TrailingIndex(sheet_name)
    /\ category' = map_sheet_to_category(sheet_name)
    /\ kpc' = "done"
    /\ UNCHANGED sheet_name
    /\ UNCHANGED cleanVars
    /\ UNCHANGED loadVars

NextClassify == Classify

SpecClassify == InitClassify /\ [][NextClassify]_vars

----------------------------------------------------------------------------
(* Properties of cleaning_dataframe (SpecClean).                           *)

Cleaned == cpc \in {"cleaned", "recleaned"}

\* The 0-based indices of the real-data columns of the raw sheet.
RealColumns == {c \in 1..(Len(raw.columns) - 1) : c % 2 = 1}

RawLabel(c) == raw.columns[c + 1]

RawCell(r, c) == raw.data[r][c + 1]

\* The label of the long table's row for raw row r and real-data column c.
CellIndex(r, c) == ((c - 1) \div 2) * Len(raw.data) + (r - 1)

\* A placeholder, an empty cell or a text that is no number.
InvalidValue(c) ==
    \/ c \in {Str(":"), Str("d"), NaN}
    \/ c.t = "str" /\ c.v \notin {"7"}

\* A label read as the missing date.
NullLabel(l) == l \in NatStrings

\* A label read neither as a date nor as the missing date.
BadLabel(l) == l \notin {"2020-01", "2020-02"} /\ ~NullLabel(l)

KeptCells ==
    {<<r, c>> \in (1..Len(raw.data)) \X RealColumns :
        ~InvalidValue(RawCell(r, c)) /\ ~NullLabel(RawLabel(c))}

OutIndex == Range(res.df.index)

\* The position in the cleaned table of the row labelled n.
OutPos(n) == CHOOSE k \in 1..Len(res.df.index) : res.df.index[k] = n

C2_NoMissingSurvives ==
    (Cleaned /\ res.ok) =>
        \A rc \in (1..Len(raw.data)) \X RealColumns :
            CellIndex(rc[1], rc[2]) \in OutIndex =>
                /\ RawCell(rc[1], 0) \notin {NaN, Str(":"), Str("d")}
                /\ ~InvalidValue(RawCell(rc[1], rc[2]))

\* The raw sheet has the first header the code renames.
TimeHeader == raw.columns[1] = "TIME"

\* C4 as stated: a period label that is no date makes the cleaning fail, a
\* placeholder or non-numeric value never does.
C4_UnparsedLabelAlwaysFails ==
    (Cleaned /\ TimeHeader) =>
        /\ (\E c \in RealColumns : RawLabel(c) \notin {"2020-01", "2020-02"})
              => ~res.ok
        /\ (\A c \in RealColumns : RawLabel(c) \in {"2020-01", "2020-02"})
              => res.ok

\* C4, amended: with the first header TIME, the cleaning fails (with the
\* date parser's error, returning no table) exactly when the sheet has at
\* least one data row and a real-data column whose label is read neither as
\* a date nor as the missing date; placeholders and non-numeric values never
\* make it fail and cost only their own rows.
C4_LabelFatalValueAbsorbed ==
    (Cleaned /\ TimeHeader) =>
        /\ ~res.ok <=> (Len(raw.data) >= 1 /\ \E c \in RealColumns : BadLabel(RawLabel(c)))
        /\ ~res.ok => (res.err = "DateParseError" /\ res.df = NoFrame)
        /\ res.ok =>
              \A rc \in (1..Len(raw.data)) \X RealColumns :
                  CellIndex(rc[1], rc[2]) \in OutIndex
                      <=> (~InvalidValue(RawCell(rc[1], rc[2])) /\ ~NullLabel(RawLabel(rc[2])))

C4_Witness ==
    /\ cpc = "cleaned" /\ TimeHeader
    /\ ~res.ok /\ res.err = "DateParseError"
    /\ Len(raw.columns) = 4 /\ Len(raw.data) = 2
    /\ RawLabel(1) = "2020-01" /\ RawLabel(3) = "Total"
    /\ RawCell(1, 1) = Str("x")

\* C5 as stated: cleaning the cleaned table again succeeds and returns the
\* same rows.
C5_Idempotent ==
    cpc = "recleaned" => (res2.ok /\ res2.df.data = res.df.data)

\* C5, amended: cleaning a cleaned table again returns it unchanged only
\* when it has no rows; with one row or more the second cleaning fails in
\* the date parser, the column label "Date" having become a period label.
C5_SecondCleaningFailsUnlessEmpty ==
    cpc = "recleaned" =>
        IF res.df.data = <<>>
        THEN res2.ok /\ res2.df.data = <<>> /\ res2.df.columns = res.df.columns
        ELSE ~res2.ok /\ res2.err = "DateParseError"

C5_Witness ==
    /\ cpc = "recleaned"
    /\ Len(res.df.data) = 2
    /\ ~res2.ok

\* The text astype(str) gives the Country cell c after the placeholder
\* replacement.
CountryText(c) == IF c \in {NaN, Str(":"), Str("d")} THEN "nan" ELSE c.v

\* C9 as stated: whatever the first header, cleaning succeeds (the period
\* labels permitting) and Country holds the first column's values.
C9_AnyFirstHeaderRenamed ==
    (Cleaned /\ ~(Len(raw.data) >= 1 /\ \E c \in RealColumns : BadLabel(RawLabel(c)))) =>
        /\ res.ok
        /\ \A rc \in (1..Len(raw.data)) \X RealColumns :
              CellIndex(rc[1], rc[2]) \in OutIndex =>
                  res.df.data[OutPos(CellIndex(rc[1], rc[2]))][1].v
                      = CountryText(RawCell(rc[1], 0))

\* C9, amended: only the header "TIME" is renamed to Country.  With the
\* first header "TIME" (the period labels permitting) cleaning succeeds and
\* Country holds the text of the first column's values; with a first header
\* that is neither "TIME" nor "Country" the reshape fails with KeyError and
\* no table is returned.
C9_OnlyTimeRenamed ==
    Cleaned =>
        /\ (TimeHeader /\ ~(Len(raw.data) >= 1 /\ \E c \in RealColumns : BadLabel(RawLabel(c)))) =>
              /\ res.ok
              /\ res.df.columns = <<"Country", "Date", "HICP">>
              /\ \A rc \in (1..Len(raw.data)) \X RealColumns :
                    CellIndex(rc[1], rc[2]) \in OutIndex =>
                        res.df.data[OutPos(CellIndex(rc[1], rc[2]))][1]
                            = Str(CountryText(RawCell(rc[1], 0)))
        /\ raw.columns[1] \notin {"TIME", "Country"} =>
              (~res.ok /\ res.err = "KeyError" /\ res.df = NoFrame)

C9_Witness ==
    /\ cpc = "cleaned"
    /\ raw.columns[1] = "GEO"
    /\ Len(raw.data) = 1 /\ RawLabel(1) = "2020-01" /\ RawCell(1, 1) = Num("100.0")
    /\ res.err = "KeyError"

----------------------------------------------------------------------------
(* Properties of map_sheet_to_category (SpecClassify).                     *)

\* C3: the classifier always answers one of the four categories; with a
\* trailing integer idx the answer is Food iff 1 <= idx <= 75, Housing &
\* Energy iff 76 <= idx <= 108, Transport iff 109 <= idx <= 150 and Other
\* otherwise; without one (empty name, blanks only, a last token that is no
\* integer) the answer is Other; the three ranges are pairwise disjoint.
C3_ClassifierTotalByRange ==
    /\ SHEETS_INDEX_FOOD \cap SHEETS_INDEX_HOUSING_ENERGY = {}
    /\ SHEETS_INDEX_FOOD \cap SHEETS_INDEX_TRANSPORT = {}
    /\ SHEETS_INDEX_HOUSING_ENERGY \cap SHEETS_INDEX_TRANSPORT = {}
    /\ kpc = "done" =>
          /\ category \in {"Food", "Housing & Energy", "Transport", "Other"}
          /\ idx.ok =>
                /\ category = "Food" <=> (1 <= idx.v /\ idx.v <= 75)
                /\ category = "Housing & Energy" <=> (76 <= idx.v /\ idx.v <= 108)
                /\ category = "Transport" <=> (109 <= idx.v /\ idx.v <= 150)
                /\ category = "Other" <=> (idx.v <= 0 \/ idx.v >= 151)
          /\ ~idx.ok => category = "Other"
          /\ (\A k \in 1..Len(sheet_name) : sheet_name[k] = " ") => ~idx.ok
          /\ (sheet_name /= <<>> /\ sheet_name[Len(sheet_name)] = "S") => ~idx.ok
          /\ sheet_name = <<"S", " ", "1">> => category = "Food"
          /\ sheet_name = <<"7", "5">> => category = "Food"
          /\ sheet_name = <<"S", " ", "7", "6">> => category = "Housing & Energy"
          /\ sheet_name = <<"1", "0", "8", " ">> => category = "Housing & Energy"
          /\ sheet_name = <<"1", "0", "9">> => category = "Transport"
          /\ sheet_name = <<"1", "5", "0">> => category = "Transport"
          /\ sheet_name = <<"1", "5", "1">> => category = "Other"
          /\ sheet_name = <<"-", "1">> => (idx.ok /\ idx.v = 0 - 1 /\ category = "Other")
          /\ sheet_name = <<"0">> => category = "Other"
          /\ sheet_name = <<"1", " ", "-">> => category = "Other"

C3_Witness ==
    /\ kpc = "done"
    /\ sheet_name = <<"S", " ", "7", "5">>
    /\ idx.ok /\ idx.v = 75
    /\ category = "Food"

----------------------------------------------------------------------------
(* Properties of the loaders (SpecAssemble, SpecLoadAll).                  *)

\* The positions, in a Summary sheet, of the columns assembler k selects.
SelectedPositions(k) == IF k = "weights" THEN <<2, 4>> ELSE <<2, 4, 5>>

SelectedNames(k) ==
    IF k = "weights" THEN <<"sheet_name", "description">>
    ELSE <<"sheet_name", "base", "description">>

\* The rows of the Summary sheet df that are no "Contents" row and miss no
\* selected value, in order.
KeptRows(df, k) ==
    SelectIdx([r \in 1..Len(df.data) |->
                  /\ df.data[r][2] /= Str("Contents")
                  /\ \A n \in 1..Len(SelectedPositions(k)) :
                        df.data[r][SelectedPositions(k)[n]] /= NaN],
              Len(df.data))

\* C6: the cleaned summary holds exactly the rows of the Summary sheet whose
\* first selected column is not "Contents" and that miss no selected value,
\* restricted to the selected columns under their new names, in the sheet's
\* order; the sheets read are those of these rows, so the sheet of a
\* discarded row is never read.
C6_SummaryKeepsCompleteRows ==
    (apc /= "summary") =>
        LET df   == files[kind]
            keep == KeptRows(df, kind)
            sel  == SelectedPositions(kind)
        IN  /\ summary.columns = SelectedNames(kind)
            /\ summary.index = [n \in 1..Len(keep) |-> n - 1]
            /\ summary.data = [n \in 1..Len(keep) |->
                                  [k \in 1..Len(sel) |-> df.data[keep[n]][sel[k]]]]
            /\ Len(reads) <= Len(keep)
            /\ \A j \in 1..Len(reads) : reads[j] = <<kind, df.data[keep[j]][2]>>

C6_Witness ==
    /\ apc = "returned" /\ kind = "main"
    /\ files["main"].data = <<SummaryRow(Str("S 1"), NaN, Str("Bread")),
                              SummaryRow(Str("S 76"), Str("2015"), Str("Rent"))>>
    /\ summary.data = << <<Str("S 76"), Str("2015"), Str("Rent")>> >>
    /\ reads = << <<"main", Str("S 76")>> >>

\* The rows each data sheet cleans to.
CleanRows(name) ==
    CASE name = "S 1"  -> << <<Str("FR"), Date("2020-01-01"), Num("100.0")>>,
                             <<Str("DE"), Date("2020-02-01"), Num("99.5")>> >>
      [] name = "S 76" -> << <<Str("FR"), Date("2020-01-01"), Num("101.0")>> >>
      [] OTHER         -> <<>>

CategoryOf(name) ==
    CASE name = "S 1"  -> "Food"
      [] name = "S 76" -> "Housing & Energy"
      [] name = "S 109" -> "Transport"
      [] OTHER         -> "Other"

\* The rows the summary entry e contributes to the dataset of assembler k.
Contribution(k, e) ==
    LET tail == IF k = "details"
                THEN <<e[Len(e)], Str(CategoryOf(e[1].v))>> ELSE <<e[Len(e)]>>
    IN  [m \in 1..Len(CleanRows(e[1].v)) |-> CleanRows(e[1].v)[m] \o tail]

\* C7: the dataset an assembler returns is the cleaned tables of the
\* summary's sheets one after the other in summary order, each in its own
\* order, every row carrying its entry's description as label (and, in the
\* detailed dataset, its sheet's category); a sheet listed twice gives its
\* rows twice.
C7_DatasetIsOrderedConcatenation ==
    (apc = "returned") =>
        LET rows == Flatten([n \in 1..Len(summary.data) |->
                                Contribution(kind, summary.data[n])])
        IN  /\ out.ok
            /\ out.df.data = rows
            /\ out.df.index = [n \in 1..Len(rows) |-> n - 1]
            /\ out.df.columns =
                  (IF kind = "details"
                   THEN <<"Country", "Date", "HICP", "label", "Category">>
                   ELSE <<"Country", "Date", "HICP", "label">>)

C7_Witness ==
    /\ apc = "returned" /\ kind = "details"
    /\ summary.data = << <<Str("S 76"), Str("2015"), Str("Rent")>>,
                         <<Str("S 1"), Str("2015"), Str("Bread")>> >>
    /\ Len(out.df.data) = 3
    /\ out.df.data[1] = <<Str("FR"), Date("2020-01-01"), Num("101.0"),
                          Str("Rent"), Str("Housing & Energy")>>
    /\ out.df.data[3] = <<Str("DE"), Date("2020-02-01"), Num("99.5"),
                          Str("Bread"), Str("Food")>>

\* The sheets whose reading or cleaning fails.
FailingSheets == {"S 151", "S 9"}

ReadFails(rd) == rd[2].v \in FailingSheets

\* C8: once the reading or cleaning of a sheet has failed, no other sheet is
\* read, the assembler has raised, load_all_data is in that call or has been
\* left by the exception, and nothing has been returned; load_all_data
\* returns its tables only when no sheet failed, and returns nothing when it
\* fails, whatever was cleaned or assembled before.
C8_FailFast ==
    /\ \A j \in 1..(Len(reads) - 1) : ~ReadFails(reads[j])
    /\ (reads /= <<>> /\ ReadFails(reads[Len(reads)])) =>
          /\ apc = "raised"
          /\ kind = reads[Len(reads)][1]
          /\ lpc \in {kind, "failed"}
          /\ ret = NoReturn
    /\ apc = "raised" => (lpc \in {kind, "failed"} /\ ret = NoReturn)
    /\ lpc = "failed" => (apc = "raised" /\ ret = NoReturn)
    /\ ret.returned =>
          /\ lpc = "done"
          /\ \A j \in 1..Len(reads) : ~ReadFails(reads[j])
          /\ \A p \in Paths :
                \A n \in 1..Len(KeptRows(files[p], p)) :
                    files[p].data[KeptRows(files[p], p)[n]][2].v \notin FailingSheets

C8_Witness ==
    /\ lpc = "failed" /\ kind = "weights"
    /\ Len(got.df_all.data) = 2 /\ Len(got.df_all_items.data) = 2
    /\ Len(reads) = 4
    /\ reads[3] = <<"weights", Str("S 1")>>
    /\ reads[4] = <<"weights", Str("S 151")>>
    /\ ret = NoReturn

\* C10: an assembler whose cleaned summary lists no sheet ends in the
\* ValueError of concatenating nothing, having read no sheet, and
\* load_all_data then returns nothing; one whose summary lists sheets that
\* all read and clean returns, a sheet that cleans to no rows contributing
\* nothing (the dataset may be empty).
C10_EmptyContributions ==
    /\ (apc \in {"returned", "raised"} /\ summary.data = <<>>) =>
          /\ apc = "raised" /\ out.err = "ValueError"
          /\ \A j \in 1..Len(reads) : reads[j][1] /= kind
          /\ ret = NoReturn
          /\ lpc \in {kind, "failed"}
    /\ (apc \in {"returned", "raised"} /\ summary.data /= <<>>
            /\ \A n \in 1..Len(summary.data) : summary.data[n][1].v \notin FailingSheets) =>
          /\ apc = "returned" /\ out.ok
          /\ Len(out.df.data) =
                2 * Cardinality({n \in 1..Len(summary.data) : summary.data[n][1] = Str("S 1")})
                  + Cardinality({n \in 1..Len(summary.data) : summary.data[n][1] = Str("S 76")})
    /\ ret.returned => \A p \in Paths : KeptRows(files[p], p) /= <<>>

C10_Witness ==
    /\ lpc = "failed" /\ kind = "details"
    /\ got.df_all.columns = <<"Country", "Date", "HICP", "label">>
    /\ got.df_all.data = <<>>
    /\ files["main"].data = <<SummaryRow(Str("S 109"), Str("2015"), Str("Fuel"))>>
    /\ files["details"].data = <<SummaryRow(Str("Contents"), NaN, NaN)>>
    /\ out.err = "ValueError"
    /\ ret = NoReturn

====
